---------------------------- MODULE Spec2Model ----------------------------
(***************************************************************************)
(* ExamBuddy core (src/core.py): the extractive text-analysis pipeline and *)
(* the rubric answer grader.  Strings are sequences of one-character       *)
(* strings; every regular expression and string method of the source is    *)
(* spelled out on those sequences.                                         *)
(***************************************************************************)
EXTENDS Integers, Sequences, FiniteSets, TLC

VARIABLES
    answer,      \* Optional[str] handed to mark_answer: <<>> is None, <<s>> is s
    expected,    \* expected_keywords handed to mark_answer
    marking,     \* <<>> before the call, <<result>> after mark_answer returned
    answerB,     \* a second answer marked against the same expected keywords
    markingB,    \* its result, <<>> before the call
    text,        \* the text handed to extract_topics
    limit,       \* top_n or max_sentences of the call
    pages,       \* the document: a sequence of [page |-> number, text |-> string]
    topic,       \* the topic string of the call
    sentences,   \* the sentence list handed to summarize_sentences
    topics,      \* <<>> before the call, <<result>> after extract_topics returned
    hits,        \* the same for find_relevant_sentences_with_pages
    summary,     \* the same for summarize_sentences
    headings,    \* the same for detect_headings
    simplified,  \* the same for simplify_sentences
    sheet        \* the same for build_topic_sheet_with_pages

markVars == <<answer, expected, marking, answerB, markingB>>

inVars == <<text, limit, pages, topic, sentences>>

outVars == <<topics, hits, summary, headings, simplified, sheet>>

docVars == <<inVars, outVars>>

vars == <<markVars, docVars>>

\* the variables of the other operations, while one operation runs
MarkIdle == answer = <<>> /\ expected = <<>> /\ marking = <<>> /\ answerB = <<>> /\ markingB = <<>>

DocIdle ==
    /\ text = <<>> /\ limit = 0 /\ pages = <<>> /\ topic = <<>> /\ sentences = <<>>
    /\ topics = <<>> /\ hits = <<>> /\ summary = <<>> /\ headings = <<>> /\ sheet = <<>>
    /\ simplified = <<>>

(***************************************************************************)
(* Characters and the string primitives the source uses                    *)
(***************************************************************************)
Lower == {"a","b","c","d","e","f","g","h","i","j","k","l","m",
          "n","o","p","q","r","s","t","u","v","w","x","y","z"}

Upper == {"A","B","C","D","E","F","G","H","I","J","K","L","M",
          "N","O","P","Q","R","S","T","U","V","W","X","Y","Z"}

Digit == {"0","1","2","3","4","5","6","7","8","9"}

\* \s of the re module and the characters str.strip() removes
Space == {" ", "\t", "\n", "\r", "\f"}

UpperSeq == <<"A","B","C","D","E","F","G","H","I","J","K","L","M",
              "N","O","P","Q","R","S","T","U","V","W","X","Y","Z">>

LowerSeq == <<"a","b","c","d","e","f","g","h","i","j","k","l","m",
              "n","o","p","q","r","s","t","u","v","w","x","y","z">>

LowerOf == [c \in Upper |-> LowerSeq[CHOOSE i \in 1..26 : UpperSeq[i] = c]]

\* str.lower(), one character
lower_ch(c) == IF c \in Upper THEN LowerOf[c] ELSE c

\* the list f with each element computed once
Listed(f) == f \o <<>>

\* str.lower()
lower(s) == Listed([i \in 1..Len(s) |-> lower_ch(s[i])])

Min(a, b) == IF a < b THEN a ELSE b

Max(a, b) == IF a > b THEN a ELSE b

\* s[:n] of a Python sequence, n >= 0
Take(s, n) == SubSeq(s, 1, Min(n, Len(s)))

\* s[n:] of a Python sequence, n >= 0
Drop(s, n) == SubSeq(s, Min(n, Len(s)) + 1, Len(s))

\* <<1, ..., n>>
Indices(n) == [i \in 1..n |-> i]

NonEmpty(p) == p # <<>>

\* str.strip(): leading and trailing whitespace removed
strip(s) ==
    LET Inked(i) == s[i] \notin Space
        idx == SelectSeq(Indices(Len(s)), Inked)
    IN  IF idx = <<>> THEN <<>> ELSE SubSeq(s, idx[1], idx[Len(idx)])

\* sub in s
Contains(sub, s) ==
    \E i \in 1..(Len(s) - Len(sub) + 1) : SubSeq(s, i, i + Len(sub) - 1) = sub

\* the maximal runs of characters of s that lie outside Sep, in order: the
\* non-empty pieces of a re.split on the class [Sep]+, and str.split()
SplitRuns(s, Sep) ==
    LET IsStart(i) == s[i] \notin Sep /\ (i = 1 \/ s[i-1] \in Sep)
        IsEnd(i)   == s[i] \notin Sep /\ (i = Len(s) \/ s[i+1] \in Sep)
        st == SelectSeq(Indices(Len(s)), IsStart)
        en == SelectSeq(Indices(Len(s)), IsEnd)
    IN  [k \in 1..Len(st) |-> SubSeq(s, st[k], en[k])]

\* str.split(): the maximal runs of non-whitespace characters
split_ws(s) == SplitRuns(s, Space)

\* sep.join(ws)
RECURSIVE JoinWords(_, _)
JoinWords(ws, sep) ==
    IF ws = <<>> THEN <<>>
    ELSE IF Len(ws) = 1 THEN ws[1]
    ELSE ws[1] \o sep \o JoinWords(Tail(ws), sep)

\* n copies of s
Repeat(s, n) == [i \in 1..(n * Len(s)) |-> s[((i - 1) % Len(s)) + 1]]

\* the maximal runs of characters of s that lie in In, in order
RunsIn(s, In) ==
    LET IsStart(i) == s[i] \in In /\ (i = 1 \/ s[i-1] \notin In)
        IsEnd(i)   == s[i] \in In /\ (i = Len(s) \/ s[i+1] \notin In)
        st == SelectSeq(Indices(Len(s)), IsStart)
        en == SelectSeq(Indices(Len(s)), IsEnd)
    IN  [k \in 1..Len(st) |-> SubSeq(s, st[k], en[k])]

\* a stable sort: Before(a, b) says that a sorts strictly before b; items
\* that neither way sort before each other keep their order
SortStable(items, Before(_, _)) ==
    LET n == Len(items)
        rank == Listed([i \in 1..n |-> 1 + Cardinality({j \in 1..n :
                        \/ Before(items[j], items[i])
                        \/ (~Before(items[i], items[j]) /\ j < i)})])
    IN  [r \in 1..n |-> items[CHOOSE i \in 1..n : rank[i] = r]]

\* sorted(items, key=Key, reverse=True): descending, equal keys keep their order
SortDescStable(items, Key(_)) ==
    LET Before(a, b) == Key(a) > Key(b)
    IN  SortStable(items, Before)

\* sorted(items, key=Key): ascending, equal keys keep their order
SortAscStable(items, Key(_)) ==
    LET Before(a, b) == Key(a) < Key(b)
    IN  SortStable(items, Before)

\* \w of the re module (ASCII)
WordCh == Lower \cup Upper \cup Digit \cup {"_"}

\* \b at the gap after position p of s (p = 0 is the start of the string)
word_boundary(s, p) ==
    LET before == p >= 1 /\ p <= Len(s) /\ s[p] \in WordCh
        after  == p + 1 >= 1 /\ p + 1 <= Len(s) /\ s[p+1] \in WordCh
    IN  before # after

(***************************************************************************)
(* Text cleaning and splitting: clean_text, split_sentences                *)
(***************************************************************************)
\* the character "\x00"
NUL == "NUL"

\* re.sub(r"[ \t]+", " ", s) when Run = {" ", "\t"}: each maximal run of
\* characters of Run becomes one space
collapse_runs(s, Run) ==
    LET mark == [i \in 1..Len(s) |->
                    IF s[i] \notin Run THEN s[i]
                    ELSE IF i > 1 /\ s[i-1] \in Run THEN "drop" ELSE " "]
        Kept(c) == c # "drop"
    IN  SelectSeq(mark, Kept)

\* re.sub(r"\n{3,}", "\n\n", s): a run of three or more newlines keeps two
collapse_newlines(s) ==
    LET mark == [i \in 1..Len(s) |->
                    IF i > 2 /\ s[i] = "\n" /\ s[i-1] = "\n" /\ s[i-2] = "\n"
                    THEN "drop" ELSE s[i]]
        Kept(c) == c # "drop"
    IN  SelectSeq(mark, Kept)

clean_text(s) ==
    IF s = <<>> THEN <<>>
    ELSE LET s1 == Listed([i \in 1..Len(s) |-> IF s[i] = NUL THEN " " ELSE s[i]])
             s2 == collapse_runs(s1, {" ", "\t"})
             s3 == collapse_newlines(s2)
         IN  strip(s3)

\* re.split(r"(?<=[\.\!\?])\s+(?=[A-Z0-9])", text): the separators are the
\* maximal whitespace runs that follow . ! or ? and precede A-Z or 0-9
split_sentences(s) ==
    LET t  == clean_text(s)
        n  == Len(t)
        IsStart(i) == t[i] \in Space /\ (i = 1 \/ t[i-1] \notin Space)
        IsEnd(i)   == t[i] \in Space /\ (i = n \/ t[i+1] \notin Space)
        st == SelectSeq(Indices(n), IsStart)
        en == SelectSeq(Indices(n), IsEnd)
        IsSep(k) == /\ st[k] > 1 /\ t[st[k] - 1] \in {".", "!", "?"}
                    /\ en[k] < n /\ t[en[k] + 1] \in (Upper \cup Digit)
        sep == SelectSeq(Indices(Len(st)), IsSep)
        parts == [j \in 1..(Len(sep) + 1) |->
                    strip(SubSeq(t, IF j = 1 THEN 1 ELSE en[sep[j-1]] + 1,
                                    IF j = Len(sep) + 1 THEN n ELSE st[sep[j]] - 1))]
    IN  IF t = <<>> THEN <<>> ELSE SelectSeq(parts, NonEmpty)

(***************************************************************************)
(* Topic extraction: STOPWORDS, tokenize, extract_topics                   *)
(***************************************************************************)
STOPWORDS == {
    <<"a">>, <<"a","b","o","v","e">>, <<"a","f","t","e","r">>, <<"a","g","a","i","n">>,
    <<"a","m","o","n","g">>, <<"a","n">>, <<"a","n","d">>, <<"a","r","e">>, <<"a","s">>,
    <<"a","t">>, <<"b","e">>, <<"b","e","c","a","u","s","e">>, <<"b","e","e","n">>,
    <<"b","e","f","o","r","e">>, <<"b","e","i","n","g">>, <<"b","e","l","o","w">>,
    <<"b","e","t","w","e","e","n">>, <<"b","u","t">>, <<"b","y">>, <<"c","a","n">>,
    <<"c","o","u","l","d">>, <<"d","o","w","n">>, <<"d","u","r","i","n","g">>, <<"f","o","r">>,
    <<"f","r","o","m">>, <<"f","u","r","t","h","e","r">>, <<"h","e">>, <<"h","e","r">>,
    <<"h","i","s">>, <<"i">>, <<"i","f">>, <<"i","n">>, <<"i","n","t","o">>, <<"i","s">>,
    <<"i","t">>, <<"i","t","s">>, <<"j","u","s","t">>, <<"m","a","y">>, <<"m","e">>,
    <<"m","i","g","h","t">>, <<"m","y">>, <<"n","o">>, <<"n","o","t">>, <<"o","f">>, <<"o","n">>,
    <<"o","n","t","o">>, <<"o","r">>, <<"o","u","r">>, <<"o","u","t">>, <<"o","v","e","r">>,
    <<"s","h","e">>, <<"s","h","o","u","l","d">>, <<"s","o">>, <<"t","h","a","t">>,
    <<"t","h","e">>, <<"t","h","e","i","r">>, <<"t","h","e","m">>, <<"t","h","e","n">>,
    <<"t","h","e","s","e">>, <<"t","h","e","y">>, <<"t","h","i","s">>, <<"t","h","o","s","e">>,
    <<"t","o">>, <<"u","n","d","e","r">>, <<"u","p">>, <<"w","a","s">>, <<"w","e">>,
    <<"w","e","r","e">>, <<"w","i","l","l">>, <<"w","i","t","h">>, <<"w","i","t","h","i","n">>,
    <<"w","i","t","h","o","u","t">>, <<"w","o","u","l","d">>, <<"y","e","s">>, <<"y","o","u">>,
    <<"y","o","u","r">>}

\* the characters of the class [a-zA-Z\-']
TokenCh == Lower \cup Upper \cup {"-", "'"}

\* re.findall(r"[a-zA-Z][a-zA-Z\-']{1,}", s): in each maximal run of token
\* characters, the part from its first letter on, if two characters or more
find_tokens(s) ==
    LET runs == RunsIn(s, TokenCh)
        FromLetter(run) ==
            LET IsLetter(i) == run[i] \in (Lower \cup Upper)
                at == SelectSeq(Indices(Len(run)), IsLetter)
            IN  IF at = <<>> THEN <<>> ELSE SubSeq(run, at[1], Len(run))
        Long(tok) == Len(tok) >= 2
    IN  SelectSeq([k \in 1..Len(runs) |-> FromLetter(runs[k])], Long)

tokenize(s) ==
    LET Keep(tok) == tok \notin STOPWORDS /\ Len(tok) > 2
    IN  SelectSeq(find_tokens(lower(s)), Keep)

\* Counter(tokens): the distinct tokens in first-insertion order, with counts
Counter(tokens) ==
    LET IsFirst(i) == \A j \in 1..(i - 1) : tokens[j] # tokens[i]
        first == SelectSeq(Indices(Len(tokens)), IsFirst)
    IN  [k \in 1..Len(first) |->
            [word  |-> tokens[first[k]],
             count |-> Cardinality({j \in 1..Len(tokens) : tokens[j] = tokens[first[k]]})]]

CountOf(entry) == entry.count

most_common_ties_reversed(counts, n) ==
    LET asc == SortAscStable(counts, CountOf)
        m == Len(asc)
    IN  Take([r \in 1..m |-> asc[m + 1 - r]], n)

\* Counter.most_common(n): heapq.nlargest(n, items, key=count), which equals
\* sorted(items, key=count, reverse=True)[:n]
most_common(counts, n) == Take(SortDescStable(counts, CountOf), n)

extract_topics(s, top_n) ==
    LET tokens == tokenize(s)
    IN  IF tokens = <<>> THEN <<>> ELSE most_common(Counter(tokens), top_n)

(***************************************************************************)
(* Heading detection: detect_headings                                      *)
(***************************************************************************)
\* the line boundaries of str.splitlines() among the modelled characters
LineBreak == {"\n", "\r", "\f"}

\* [ln.strip() for ln in clean_text(text).splitlines() if ln.strip()]
page_lines(t) ==
    LET raw == SplitRuns(clean_text(t), LineBreak)
    IN  SelectSeq([k \in 1..Len(raw) |-> strip(raw[k])], NonEmpty)

\* str.isupper(): a cased character, and no lower-case one
isupper(s) ==
    /\ \E i \in 1..Len(s) : s[i] \in Upper
    /\ \A i \in 1..Len(s) : s[i] \notin Lower

ScanLines == 20

MaxHeadingLen == 60

MinCapsLen == 6

MaxHeadings == 25

SpecialHeadings == {<<"A","D","M","E">>, <<"F","o","r","e","n","s","i","c"," ","T","o","x","i","c","o","l","o","g","y">>}

is_all_caps(ln) == isupper(ln) /\ Len(ln) >= MinCapsLen

\* at least half of the words, without the lower bound of 2
title_case_half(ln) ==
    LET ws == split_ws(ln)
    IN  2 * Cardinality({k \in 1..Len(ws) : ws[k][1] \in Upper}) >= Len(ws)

\* sum(1 for w in ln.split() if w[:1].isupper()) >= max(2, len(ln.split()) // 2)
title_case(ln) ==
    LET ws == split_ws(ln)
    IN  Cardinality({k \in 1..Len(ws) : ws[k][1] \in Upper}) >= Max(2, Len(ws) \div 2)

has_letters(ln) == \E i \in 1..Len(ln) : ln[i] \in (Lower \cup Upper)

not_just_number(ln) == ~(Len(ln) >= 1 /\ \A i \in 1..Len(ln) : ln[i] \in Digit)

\* the test a line passes to be appended to headings
is_heading(ln) ==
    /\ Len(ln) <= MaxHeadingLen
    /\ has_letters(ln)
    /\ not_just_number(ln)
    /\ (is_all_caps(ln) \/ title_case(ln) \/ ln \in SpecialHeadings)

\* the lines of one page that pass the test, among its first 20
page_headings(p) ==
    LET cand == SelectSeq(Take(page_lines(p.text), ScanLines), is_heading)
    IN  [k \in 1..Len(cand) |-> [heading |-> cand[k], page |-> p.page]]

RECURSIVE headings_from(_, _)
headings_from(ps, i) ==
    IF i > Len(ps) THEN <<>> ELSE page_headings(ps[i]) \o headings_from(ps, i + 1)

\* the list headings: an entry is appended unless (ln.lower(), pg) was seen
collect_headings(ps) ==
    LET all == headings_from(ps, 1)
        low == Listed([k \in 1..Len(all) |-> lower(all[k].heading)])
        Fresh(i) == \A j \in 1..(i - 1) : ~(low[j] = low[i] /\ all[j].page = all[i].page)
        keep == SelectSeq(Indices(Len(all)), Fresh)
    IN  [k \in 1..Len(keep) |-> all[keep[k]]]

PageOf(h) == h.page

dedupe_keep_last(hs) ==
    LET low == Listed([k \in 1..Len(hs) |-> lower(hs[k].heading)])
        Last(i) == \A j \in (i + 1)..Len(hs) : low[j] # low[i]
        keep == SelectSeq(Indices(Len(hs)), Last)
    IN  [k \in 1..Len(keep) |-> hs[keep[k]]]

\* the loop that fills final: an entry is skipped if its lowered heading was seen
dedupe_headings(hs) ==
    LET low == Listed([k \in 1..Len(hs) |-> lower(hs[k].heading)])
        First(i) == \A j \in 1..(i - 1) : low[j] # low[i]
        keep == SelectSeq(Indices(Len(hs)), First)
    IN  [k \in 1..Len(keep) |-> hs[keep[k]]]

\* the result without the cut at 25
detect_headings_uncut(ps) ==
    dedupe_headings(SortAscStable(collect_headings(ps), PageOf))

detect_headings(ps) ==
    Take(dedupe_headings(SortAscStable(collect_headings(ps), PageOf)), MaxHeadings)

(***************************************************************************)
(* Page-aware relevance: find_relevant_sentences_with_pages                *)
(***************************************************************************)
\* the first index >= from at which sub occurs in s, 0 if none
FindFrom(s, sub, from) ==
    LET at == {i \in from..(Len(s) - Len(sub) + 1) : SubSeq(s, i, i + Len(sub) - 1) = sub}
    IN  IF at = {} THEN 0 ELSE CHOOSE i \in at : \A j \in at : i <= j

\* s.count(sub) for non-empty sub: occurrences that do not overlap, left to right
RECURSIVE count_from(_, _, _)
count_from(s, sub, from) ==
    LET i == FindFrom(s, sub, from)
    IN  IF i = 0 THEN 0 ELSE 1 + count_from(s, sub, i + Len(sub))

str_count(s, sub) == count_from(s, sub, 1)

\* occ = s_low.count(t) if t else 0; score = occ * 3 + (1 if t and t in s_low else 0)
relevance_score(s, t) ==
    LET s_low == lower(s)
        occ   == IF t # <<>> THEN str_count(s_low, t) ELSE 0
    IN  occ * 3 + (IF t # <<>> /\ Contains(t, s_low) THEN 1 ELSE 0)

ScoreOf(hit) == hit.score

sort_hits_ties_reversed(hs) ==
    LET asc == SortAscStable(hs, ScoreOf)
        m == Len(asc)
    IN  [r \in 1..m |-> asc[m + 1 - r]]

\* hits.sort(key=lambda x: x[0], reverse=True)
sort_hits(hs) == SortDescStable(hs, ScoreOf)

\* the loop over one page: a triple for every sentence with a positive score
page_hits(p, t) ==
    LET sents == split_sentences(p.text)
        all   == [k \in 1..Len(sents) |->
                    [score |-> relevance_score(sents[k], t), page |-> p.page, sentence |-> sents[k]]]
        Positive(h) == h.score > 0
    IN  SelectSeq(all, Positive)

RECURSIVE hits_from(_, _, _)
hits_from(ps, t, i) ==
    IF i > Len(ps) THEN <<>> ELSE page_hits(ps[i], t) \o hits_from(ps, t, i + 1)

find_relevant_sentences_with_pages(ps, tp, max_sentences) ==
    LET t == strip(lower(tp))
    IN  Take(sort_hits(hits_from(ps, t, 1)), max_sentences)

(***************************************************************************)
(* Extractive summary: summarize_sentences                                 *)
(***************************************************************************)
RECURSIVE SumSeq(_)
SumSeq(ns) == IF ns = <<>> THEN 0 ELSE ns[1] + SumSeq(Tail(ns))

MaxOf(ns) == CHOOSE m \in {ns[k] : k \in 1..Len(ns)} : \A k \in 1..Len(ns) : ns[k] <= m

\* freq[w] of a Counter, 0 for a word it does not hold
FreqOf(counts, w) ==
    LET Is(e) == e.word = w
        hit == SelectSeq(counts, Is)
    IN  IF hit = <<>> THEN 0 ELSE hit[1].count

\* score = sum(weights.get(w, 0.0) for w in stoks) / math.sqrt(len(stoks)) with
\* weights[w] = freq[w] / max_f, kept exact as its square num / den
sentence_score(stoks, counts, max_f) ==
    LET total == SumSeq([k \in 1..Len(stoks) |-> FreqOf(counts, stoks[k])])
    IN  [num |-> total * total, den |-> max_f * max_f * Len(stoks)]

\* a.score > b.score for two entries of scored
HigherScore(a, b) == a.score.num * b.score.den > b.score.num * a.score.den

IndexOf(e) == e.index

\* scored.sort(key=lambda x: x[0], reverse=True); scored[:max_sentences]
select_top(scored, max_sentences) == Take(SortStable(scored, HigherScore), max_sentences)

order_selected_by_score(top) == top

\* sorted(top, key=lambda x: x[1]): the selected entries in sentence order
order_selected(top) == SortAscStable(top, IndexOf)

\* the list scored: an entry for every sentence that has tokens
scored_sentences(sents, counts) ==
    LET max_f == MaxOf([k \in 1..Len(counts) |-> counts[k].count])
        entry == [i \in 1..Len(sents) |->
                    LET stoks == tokenize(sents[i])
                    IN  [score |-> IF stoks = <<>> THEN [num |-> 0, den |-> 1]
                                   ELSE sentence_score(stoks, counts, max_f),
                         index |-> i - 1, sentence |-> sents[i], tokens |-> Len(stoks)]]
        HasTokens(e) == e.tokens > 0
    IN  SelectSeq(entry, HasTokens)

summarize_sentences(sents_in, max_sentences) ==
    LET joined == JoinWords(sents_in, <<" ">>)
        sents  == split_sentences(joined)
        counts == Counter(tokenize(joined))
    IN  IF sents = <<>> THEN <<>>
        ELSE IF counts = <<>> THEN Take(sents, max_sentences)
        ELSE LET top == order_selected(select_top(scored_sentences(sents, counts), max_sentences))
             IN  [k \in 1..Len(top) |-> top[k].sentence]

(***************************************************************************)
(* Simplifier and exam questions                                           *)
(***************************************************************************)
\* the length of the match of pattern pat starting at index i of s, 0 if none.
\* kind "word": \b<word>\b, case-insensitive.
\* kind "clause": ,\s+(which|that)\s+, case-insensitive.
MatchLen(s, i, pat) ==
    IF pat.kind = "word"
    THEN LET n == Len(pat.word)
         IN  IF /\ i + n - 1 <= Len(s)
                /\ lower(SubSeq(s, i, i + n - 1)) = pat.word
                /\ word_boundary(s, i - 1)
                /\ word_boundary(s, i + n - 1)
             THEN n ELSE 0
    ELSE LET WsEnd(from) ==
                 \* the last index of the whitespace run that starts at from
                 CHOOSE e \in from..Len(s) :
                     /\ \A k \in from..e : s[k] \in Space
                     /\ (e = Len(s) \/ s[e+1] \notin Space)
             Word(at) ==
                 IF at + 4 <= Len(s) /\ lower(SubSeq(s, at, at + 4)) = <<"w","h","i","c","h">>
                 THEN 5
                 ELSE IF at + 3 <= Len(s) /\ lower(SubSeq(s, at, at + 3)) = <<"t","h","a","t">>
                 THEN 4 ELSE 0
         IN  IF s[i] # "," \/ i + 1 > Len(s) \/ s[i+1] \notin Space THEN 0
             ELSE LET e1 == WsEnd(i + 1)
                      w  == Word(e1 + 1)
                  IN  IF w = 0 \/ e1 + w + 1 > Len(s) \/ s[e1 + w + 1] \notin Space THEN 0
                      ELSE WsEnd(e1 + w + 1) - i + 1

\* re.sub(pattern, repl, s): every match, left to right, without overlap
RECURSIVE re_sub_from(_, _, _, _)
re_sub_from(s, pat, repl, from) ==
    LET at == {i \in from..Len(s) : MatchLen(s, i, pat) > 0}
    IN  IF at = {} THEN SubSeq(s, from, Len(s))
        ELSE LET i == CHOOSE i \in at : \A j \in at : i <= j
             IN  SubSeq(s, from, i - 1) \o repl \o re_sub_from(s, pat, repl, i + MatchLen(s, i, pat))

re_sub(s, pat, repl) == re_sub_from(s, pat, repl, 1)

WordPat(w) == [kind |-> "word", word |-> w]

ClausePat == [kind |-> "clause"]

LongSentence == 180

\* the five word substitutions, in the order of the source
replace_words(s) ==
    LET x1 == re_sub(s,  WordPat(<<"t","h","e","r","e","f","o","r","e">>), <<"s","o">>)
        x2 == re_sub(x1, WordPat(<<"h","o","w","e","v","e","r">>), <<"b","u","t">>)
        x3 == re_sub(x2, WordPat(<<"i","n"," ","a","d","d","i","t","i","o","n">>), <<"a","l","s","o">>)
        x4 == re_sub(x3, WordPat(<<"a","p","p","r","o","x","i","m","a","t","e","l","y">>), <<"a","b","o","u","t">>)
    IN  re_sub(x4, WordPat(<<"u","t","i","l","i","z","e">>), <<"u","s","e">>)

\* re.sub with count = 1: the first match only
split_first_clause(x) ==
    LET at == {i \in 1..Len(x) : MatchLen(x, i, ClausePat) > 0}
    IN  IF Len(x) <= LongSentence \/ at = {} THEN x
        ELSE LET i == CHOOSE i \in at : \A j \in at : i <= j
             IN  SubSeq(x, 1, i - 1) \o <<".", " ">> \o SubSeq(x, i + MatchLen(x, i, ClausePat), Len(x))

\* if len(x) > 180: x = re.sub(r",\s+(which|that)\s+", ". ", x, flags=re.I)
split_clauses(x) ==
    IF Len(x) > LongSentence THEN re_sub(x, ClausePat, <<".", " ">>) ELSE x

simplify_sentence(s) == strip(split_clauses(replace_words(s)))

simplify_sentences(ss) == [k \in 1..Len(ss) |-> simplify_sentence(ss[k])]

\* the six questions, each a template and the text that fills it
generate_exam_questions(tp, key_terms) ==
    LET t  == IF strip(tp) # <<>> THEN strip(tp) ELSE <<"t","h","i","s"," ","t","o","p","i","c">>
        kt == IF key_terms # <<>> THEN JoinWords(Take(key_terms, 6), <<",", " ">>)
              ELSE <<"k","e","y"," ","t","e","r","m","s"," ","f","r","o","m"," ","t","h","e"," ","n","o","t","e","s">>
    IN  <<[ask |-> "define", fill |-> t],
          [ask |-> "list and explain the main components", fill |-> t],
          [ask |-> "why is it important", fill |-> t],
          [ask |-> "give one example case", fill |-> t],
          [ask |-> "screening and confirmatory testing", fill |-> t],
          [ask |-> "write a paragraph using these terms", fill |-> kt]>>

(***************************************************************************)
(* Topic sheet: build_topic_sheet_with_pages                               *)
(***************************************************************************)
SheetHits == 30

SheetSummary == 7

SheetTerms == 14

SheetCitations == 8

FallbackPages == 3

FallbackSentences == 8

RECURSIVE fallback_from(_, _)
fallback_from(ps, i) ==
    IF i > Len(ps) THEN <<>>
    ELSE LET sents == Take(split_sentences(ps[i].text), FallbackSentences)
         IN  [k \in 1..Len(sents) |-> [score |-> 1, page |-> ps[i].page, sentence |-> sents[k]]]
             \o fallback_from(ps, i + 1)

\* hits, or when there are none the first 8 sentences of each of the first 3 pages
sheet_hits(ps, tp) ==
    CHOOSE hs \in {IF found = <<>> THEN fallback_from(Take(ps, FallbackPages), 1) ELSE found :
                      found \in {find_relevant_sentences_with_pages(ps, tp, SheetHits)}} : TRUE

\* the factor 1.25 on the score of a sentence that holds the topic, as the
\* ratio 5/4
TopicBoost == [num |-> 5, den |-> 4]

HoldsTopic(sentence, tp) == tp # <<>> /\ Contains(lower(tp), lower(sentence))

\* a summarizer that is given the topic and boosts the sentences that hold it
sheet_summary_boosted(hit_sents, tp) ==
    LET joined == JoinWords(hit_sents, <<" ">>)
        sents  == split_sentences(joined)
        counts == Counter(tokenize(joined))
        Boost(e) == IF HoldsTopic(e.sentence, tp)
                    THEN [e EXCEPT !.score = [num |-> e.score.num * TopicBoost.num * TopicBoost.num,
                                              den |-> e.score.den * TopicBoost.den * TopicBoost.den]]
                    ELSE e
    IN  IF sents = <<>> THEN <<>>
        ELSE IF counts = <<>> THEN Take(sents, SheetSummary)
        ELSE LET scored == scored_sentences(sents, counts)
                 top == order_selected(select_top([k \in 1..Len(scored) |-> Boost(scored[k])], SheetSummary))
             IN  [k \in 1..Len(top) |-> top[k].sentence]

\* summary = summarize_sentences(hit_sents, max_sentences=7); the topic is not passed
sheet_summary(hit_sents, tp) == summarize_sentences(hit_sents, SheetSummary)

\* the sheet built from the hits; summary and the topic counts are each
\* computed once and then used by the later steps
sheet_from(hs, tp) ==
    LET hit_sents == [k \in 1..Len(hs) |-> hs[k].sentence]
        cited     == Take(hs, SheetCitations)
        made(summ, terms) ==
            LET key_terms == [k \in 1..Len(terms) |-> terms[k].word]
            IN  [topic |-> tp,
                 summary |-> summ,
                 simple_explanation |-> simplify_sentences(summ),
                 key_terms |-> key_terms,
                 exam_questions |-> generate_exam_questions(tp, key_terms),
                 citations |-> [k \in 1..Len(cited) |->
                                   [page |-> cited[k].page, sentence |-> cited[k].sentence]]]
    IN  CHOOSE sh \in {made(summ, terms) :
                           summ \in {sheet_summary(hit_sents, tp)},
                           terms \in {extract_topics(JoinWords(hit_sents, <<" ">>), SheetTerms)}} : TRUE

\* hits is assigned once, from the relevance search or from the fallback
build_topic_sheet_with_pages(ps, tp) ==
    CHOOSE sh \in {sheet_from(hs, tp) : hs \in {sheet_hits(ps, tp)}} : TRUE

(***************************************************************************)
(* Answer checker: _normalize and mark_answer                              *)
(***************************************************************************)
\* the characters the class [^a-z0-9\s\-'] does not match
NormKeep == Lower \cup Digit \cup Space \cup {"-", "'"}

\* re.sub(r"\s+", " ", s): every maximal whitespace run becomes one space
collapse_ws(s) ==
    LET mark == [i \in 1..Len(s) |->
                    IF s[i] \notin Space THEN s[i]
                    ELSE IF i > 1 /\ s[i-1] \in Space THEN "drop" ELSE " "]
        Kept(c) == c # "drop"
    IN  SelectSeq(mark, Kept)

\* (s or ""): None and "" both give ""
or_empty(opt) == IF opt = <<>> THEN <<>> ELSE opt[1]

_normalize(opt) ==
    LET s0 == lower(or_empty(opt))
        s1 == Listed([i \in 1..Len(s0) |-> IF s0[i] \in NormKeep THEN s0[i] ELSE " "])
    IN  strip(collapse_ws(s1))

\* re.search(rf"\b{re.escape(kw)}\b", ans) finds a match
keyword_match(kw, ans) ==
    \E i \in 1..(Len(ans) - Len(kw) + 1) :
        /\ SubSeq(ans, i, i + Len(kw) - 1) = kw
        /\ word_boundary(ans, i - 1)
        /\ word_boundary(ans, i + Len(kw) - 1)

scored_keywords_top10(exp) == SubSeq(exp, 1, IF Len(exp) < 10 THEN Len(exp) ELSE 10)

\* the keywords the loop "for kw in expected_keywords" tests: all of them
scored_keywords(exp) == exp

\* found: the tested keywords that match, in list order
RECURSIVE found_from(_, _, _)
found_from(ans, kws, i) ==
    IF i > Len(kws) THEN <<>>
    ELSE (IF keyword_match(kws[i], ans) THEN <<kws[i]>> ELSE <<>>)
         \o found_from(ans, kws, i + 1)

\* int(round(n / d)) for n >= 0, d > 0: Python rounds halves to even
round_half_even(n, d) ==
    LET q == n \div d
        r == n % d
    IN  IF 2 * r < d THEN q
        ELSE IF 2 * r > d THEN q + 1
        ELSE IF q % 2 = 0 THEN q ELSE q + 1

ContentCap == 60

ClarityCap == 25

ExampleFull == 15

ExamplePartial == 8

CoverageTarget == 10

content_score_uncapped(n_found, n_expected) ==
    round_half_even(ContentCap * n_found, Max(1, Min(CoverageTarget, n_expected)))

content_score_wrap(n_found, n_expected) ==
    LET c == content_score_uncapped(n_found, n_expected)
    IN  IF c > ContentCap THEN c - ContentCap ELSE c

\* coverage = len(found) / max(1, min(10, len(expected_keywords)))
\* content_score = min(60, int(round(60 * coverage)))
content_score(n_found, n_expected) ==
    Min(ContentCap,
        round_half_even(ContentCap * n_found, Max(1, Min(CoverageTarget, n_expected))))

Connectives == {
    <<"b","e","c","a","u","s","e">>,
    <<"t","h","e","r","e","f","o","r","e">>,
    <<"s","o">>,
    <<"b","u","t">>,
    <<"h","o","w","e","v","e","r">>}

SentenceEnd == {".", "!", "?"}

HasText(p) == strip(p) # <<>>

\* sentences = re.split(r"[.!?]+", answer.strip()), stripped, empty ones dropped
answer_sentences(raw) ==
    SelectSeq(SplitRuns(strip(raw), SentenceEnd), HasText)

WordsSome == 20

WordsMany == 50

WordsExample == 45

clarity_score(ans, raw) ==
    LET word_count == Len(split_ws(ans))
        structure  ==
              (IF word_count >= WordsSome THEN 10 ELSE 0)
            + (IF word_count >= WordsMany THEN 5 ELSE 0)
            + (IF Len(answer_sentences(raw)) >= 2 THEN 5 ELSE 0)
            + (IF \E x \in Connectives : Contains(x, ans) THEN 5 ELSE 0)
    IN  Min(ClarityCap, structure)

ExampleCues == {
    <<"f","o","r"," ","e","x","a","m","p","l","e">>,
    <<"e",".","g">>,
    <<"s","u","c","h"," ","a","s">>,
    <<"s","c","e","n","a","r","i","o">>,
    <<"c","a","s","e">>,
    <<"i","n"," ","p","r","a","c","t","i","c","e">>,
    <<"r","e","a","l">>,
    <<"i","n"," ","c","o","u","r","t">>}

example_score(ans) ==
    IF \E cue \in ExampleCues : Contains(cue, ans) THEN ExampleFull
    ELSE IF Len(split_ws(ans)) >= WordsExample THEN ExamplePartial
    ELSE 0

BandExcellent == 80

BandGood == 65

BandFair == 45

band_of_strict(total) ==
    IF total > BandExcellent THEN "Excellent"
    ELSE IF total > BandGood THEN "Good"
    ELSE IF total > BandFair THEN "Fair"
    ELSE "Needs work"

band_of(total) ==
    IF total >= BandExcellent THEN "Excellent"
    ELSE IF total >= BandGood THEN "Good"
    ELSE IF total >= BandFair THEN "Fair"
    ELSE "Needs work"

InSeq(x, s) == \E i \in 1..Len(s) : s[i] = x

\* missing = [kw for kw in expected_keywords[:10] if kw not in found][:8]
missing_keywords(exp, found) ==
    LET NotFound(kw) == ~InSeq(kw, found)
    IN  Take(SelectSeq(Take(exp, CoverageTarget), NotFound), 8)

feedback_of(content, clarity, example) ==
    LET fb == (IF content < 35 THEN <<"add more key ideas">> ELSE <<>>)
              \o (IF clarity < 15 THEN <<"make it clearer">> ELSE <<>>)
              \o (IF example < ExamplePartial THEN <<"add a quick example">> ELSE <<>>)
    IN  IF fb = <<>> THEN <<"nice">> ELSE fb

empty_result_all_missing(exp) ==
    [score |-> 0, band |-> "Needs work",
     rubric |-> [content |-> 0, clarity |-> 0, examples |-> 0],
     found_keywords |-> <<>>,
     missing_keywords |-> exp,
     feedback |-> <<"write something first">>]

\* the result returned when the normalized answer is empty
empty_result(exp) ==
    [score |-> 0, band |-> "Needs work",
     rubric |-> [content |-> 0, clarity |-> 0, examples |-> 0],
     found_keywords |-> <<>>,
     missing_keywords |-> Take(exp, 8),
     feedback |-> <<"write something first">>]

mark_answer(opt, exp) ==
    LET ans == _normalize(opt)
    IN  IF ans = <<>> THEN empty_result(exp)
        ELSE
        LET found   == found_from(ans, scored_keywords(exp), 1)
            content == content_score(Len(found), Len(exp))
            clarity == clarity_score(ans, opt[1])
            example == example_score(ans)
            total   == Min(100, content + clarity + example)
        IN  [score |-> total, band |-> band_of(total),
             rubric |-> [content |-> content, clarity |-> clarity, examples |-> example],
             found_keywords |-> Take(found, 12),
             missing_keywords |-> missing_keywords(exp, found),
             feedback |-> feedback_of(content, clarity, example)]

(***************************************************************************)
(* Inputs of the answer checker                                            *)
(***************************************************************************)
\* a ranked keyword list as extract_expected_keywords builds it (16 entries)
KeywordPool ==
    <<<<"d","o","s","e">>,
      <<"d","r","u","g">>,
      <<"l","i","v","e","r">>,
      <<"b","l","o","o","d">>,
      <<"u","r","i","n","e">>,
      <<"t","o","x","i","n">>,
      <<"a","s","s","a","y">>,
      <<"s","a","m","p","l","e">>,
      <<"p","l","a","s","m","a">>,
      <<"r","e","n","a","l">>,
      <<"l","e","t","h","a","l">>,
      <<"o","p","i","o","i","d">>,
      <<"e","t","h","a","n","o","l">>,
      <<"k","i","n","e","t","i","c","s">>,
      <<"e","n","z","y","m","e">>,
      <<"s","c","r","e","e","n">>>>

Some(s) == <<s>>

None == <<>>

\* the word no keyword list holds, used to lengthen an answer
FillerWord == <<"x","x">>

MaxKw == 12

MaxFill == 50

Tails == {
    <<>>,
    <<"."," ","S","o",","," ","i","n"," ","c","o","u","r","t","?"," ","A"," ","r","e","a","l"," ","c","a","s","e","!">>,
    <<"."," ","B","u","t"," ","w","h","y","?"," ","O","K","!">>,
    <<","," ","f","o","r"," ","E","x","a","m","p","l","e"," ","e",".","g","."," ","t","h","i","s">>}

\* the first nk pool keywords, nf filler words and a tail
RenderAnswer(nk, nf, tail) ==
    JoinWords(Take(KeywordPool, nk), <<" ">>) \o Repeat(<<" ">> \o FillerWord, nf) \o tail

BlankAnswers == {
    None,
    Some(<<>>),
    Some(<<" ","\t","\n"," ">>),
    Some(<<"?","!"," ",".",",">>)}

DupList == <<KeywordPool[1], KeywordPool[1], KeywordPool[2]>>

ExpectedLens == {0, 1, 8, 12, 16}

MarkExpected == {Take(KeywordPool, n) : n \in ExpectedLens} \cup {DupList}

InitMark ==
    /\ \/ answer \in BlankAnswers
       \/ \E nk \in 0..Min(MaxKw, Len(KeywordPool)), nf \in 0..MaxFill, tail \in Tails :
              answer = Some(RenderAnswer(nk, nf, tail))
    /\ expected \in MarkExpected
    /\ marking = <<>>
    /\ answerB = None
    /\ markingB = <<>>
    /\ DocIdle

\* result = mark_answer(answer, expected)
MarkAnswer ==
    /\ marking = <<>>
    /\ marking' = <<mark_answer(answer, expected)>>
    /\ UNCHANGED <<answer, expected, answerB, markingB, docVars>>

NextMark == MarkAnswer

SpecMark == InitMark /\ [][NextMark]_vars

(***************************************************************************)
(* Two answers marked against the same expected keywords                   *)
(***************************************************************************)
MaxAdd == 1

SeqsUpTo(S, n) == UNION {[1..k -> S] : k \in 0..n}

\* the words a student adds to a draft: pool keywords by rank, and the filler
PairAddWords == {KeywordPool[4], KeywordPool[10], KeywordPool[11], KeywordPool[12], FillerWord}

PairBases == {
    <<>>,
    RenderAnswer(3, 0, <<>>),
    RenderAnswer(9, 0, <<".">>),
    RenderAnswer(10, 12, <<"."," ","B","u","t"," ","w","h","y","?"," ","O","K","!">>)}

PairExpected == {Take(KeywordPool, 12), Take(KeywordPool, 16)}

\* the draft with the added words appended, one space before each
WithAdded(base, adds) ==
    base \o JoinWords([k \in 1..Len(adds) |-> <<" ">> \o adds[k]], <<>>)

InitMarkPair ==
    /\ \E base \in PairBases, addsA \in SeqsUpTo(PairAddWords, MaxAdd),
          addsB \in SeqsUpTo(PairAddWords, MaxAdd) :
            /\ answer = Some(WithAdded(base, addsA))
            /\ answerB = Some(WithAdded(base, addsB))
    /\ expected \in PairExpected
    /\ marking = <<>>
    /\ markingB = <<>>
    /\ DocIdle

\* result = mark_answer(answer, expected), first answer
MarkFirst ==
    /\ marking = <<>>
    /\ marking' = <<mark_answer(answer, expected)>>
    /\ UNCHANGED <<answer, expected, answerB, markingB, docVars>>

\* result = mark_answer(answerB, expected), second answer
MarkSecond ==
    /\ markingB = <<>>
    /\ markingB' = <<mark_answer(answerB, expected)>>
    /\ UNCHANGED <<answer, expected, answerB, marking, docVars>>

NextMarkPair == MarkFirst \/ MarkSecond

SpecMarkPair == InitMarkPair /\ [][NextMarkPair]_vars

(***************************************************************************)
(* Properties of mark_answer                                               *)
(***************************************************************************)
Rubric(r) == r.rubric.content + r.rubric.clarity + r.rubric.examples

\* C1: every result of mark_answer has an integer score in 0..100, the rubric
\* sub-scores content, clarity and examples within 0..60, 0..25 and 0..15,
\* and score = min(100, content + clarity + examples).
C1_ScoreAndRubricInRange ==
    marking # <<>> =>
        LET r == marking[1]
        IN  /\ r.score \in 0..100
            /\ r.rubric.content \in 0..60
            /\ r.rubric.clarity \in 0..25
            /\ r.rubric.examples \in 0..15
            /\ r.score = (IF Rubric(r) > 100 THEN 100 ELSE Rubric(r))

\* an answer that matches more than 10 of 12 expected keywords, so that the
\* coverage exceeds 1 and the cap of 60 is what bounds the content score
C1_Witness ==
    /\ marking # <<>>
    /\ Len(expected) = 12
    /\ Len(marking[1].found_keywords) >= 11
    /\ marking[1].rubric.content = 60
    /\ marking[1].rubric.clarity = 25
    /\ marking[1].score = 100

\* the characters _normalize keeps in a non-empty result
Inked == Lower \cup Upper \cup Digit \cup {"-", "'"}

\* the answer is None, empty, or made only of whitespace and stripped characters
IsBlankAnswer(opt) == opt = None \/ \A i \in 1..Len(opt[1]) : opt[1][i] \notin Inked

\* C2: an answer that normalizes to the empty string gets score 0, band
\* "Needs work", a zero rubric, no found keyword, the first 8 expected
\* keywords as missing, and the single prompt to write something.
C2_EmptyAnswerResult ==
    (marking # <<>> /\ IsBlankAnswer(answer)) =>
        LET r == marking[1]
        IN  /\ r.score = 0
            /\ r.band = "Needs work"
            /\ r.rubric = [content |-> 0, clarity |-> 0, examples |-> 0]
            /\ r.found_keywords = <<>>
            /\ r.missing_keywords = SubSeq(expected, 1, IF Len(expected) < 8 THEN Len(expected) ELSE 8)
            /\ r.feedback = <<"write something first">>

\* a punctuation-only answer marked against 16 expected keywords
C2_Witness ==
    /\ marking # <<>>
    /\ answer # None
    /\ Len(answer[1]) > 0
    /\ IsBlankAnswer(answer)
    /\ \E i \in 1..Len(answer[1]) : answer[1][i] \notin Space
    /\ Len(expected) = 16
    /\ Len(marking[1].missing_keywords) = 8

\* C5: the band is a function of the score alone, with thresholds 80, 65, 45,
\* on the empty-answer path and on the scored path alike.
C5_BandFromScore ==
    marking # <<>> =>
        LET r == marking[1]
        IN  /\ (r.band = "Excellent") <=> (r.score >= 80)
            /\ (r.band = "Good") <=> (r.score >= 65 /\ r.score < 80)
            /\ (r.band = "Fair") <=> (r.score >= 45 /\ r.score < 65)
            /\ (r.band = "Needs work") <=> (r.score < 45)

\* a scored answer that lands exactly on the threshold of "Good"
C5_Witness ==
    /\ marking # <<>>
    /\ ~IsBlankAnswer(answer)
    /\ marking[1].score = 65
    /\ marking[1].band = "Good"

\* the ranks of the expected keywords that whole-word-match the answer
Matched(opt) ==
    {i \in 1..Len(expected) : keyword_match(expected[i], _normalize(opt))}

BothMarked == marking # <<>> /\ markingB # <<>>

\* C3: if answer B matches every expected keyword answer A matches plus one
\* more, the content sub-score of B is at least that of A.
C3_ContentMonotone ==
    BothMarked =>
        LET mA == Matched(answer)
            mB == Matched(answerB)
        IN  \A pair \in {<<mA, marking, mB, markingB>>, <<mB, markingB, mA, marking>>} :
                (/\ pair[1] \subseteq pair[3]
                 /\ Cardinality(pair[3]) = Cardinality(pair[1]) + 1)
                => pair[4][1].rubric.content >= pair[2][1].rubric.content

\* A matches 10 of 12 keywords (content 60), B the same ten and the 11th
C3_Witness ==
    /\ BothMarked
    /\ Cardinality(Matched(answer)) = 10
    /\ Matched(answerB) = Matched(answer) \cup {11}
    /\ marking[1].rubric.content = 60
    /\ markingB[1].rubric.content = 60

Top10 == 1..CoverageTarget

SameSubScores(r1, r2) ==
    /\ r1.rubric.clarity = r2.rubric.clarity
    /\ r1.rubric.examples = r2.rubric.examples

\* C4 as stated: with more than 10 expected keywords, two answers that match
\* the same subset of the first 10 and have equal clarity and examples
\* sub-scores get equal content sub-scores and equal scores, whatever they
\* match at rank 11 and beyond.
C4_Beyond10NeverCounts ==
    (/\ BothMarked
     /\ Len(expected) > 10
     /\ Matched(answer) \cap Top10 = Matched(answerB) \cap Top10
     /\ SameSubScores(marking[1], markingB[1]))
    => /\ marking[1].rubric.content = markingB[1].rubric.content
       /\ marking[1].score = markingB[1].score

\* C4 amended: every matched expected keyword counts towards coverage, those
\* at rank 11 and beyond like the first 10; only the denominator stops at 10.
\* Two answers that match the same number of expected keywords and have equal
\* clarity and examples sub-scores get equal content sub-scores and scores,
\* whichever keywords they match; and matching one more keyword of rank 11 or
\* beyond raises a content sub-score that is below the cap of 60.
C4_EveryMatchCounts ==
    (BothMarked /\ Len(expected) > 10) =>
        LET mA == Matched(answer)
            mB == Matched(answerB)
        IN  /\ (/\ Cardinality(mA) = Cardinality(mB)
                /\ SameSubScores(marking[1], markingB[1]))
               => /\ marking[1].rubric.content = markingB[1].rubric.content
                  /\ marking[1].score = markingB[1].score
            /\ \A pair \in {<<mA, marking, mB, markingB>>, <<mB, markingB, mA, marking>>} :
                  (/\ \E j \in (1..Len(expected)) \ Top10 :
                          /\ j \notin pair[1]
                          /\ pair[3] = pair[1] \cup {j}
                   /\ pair[2][1].rubric.content < ContentCap)
                  => pair[4][1].rubric.content > pair[2][1].rubric.content

\* both answers match the first three keywords; one adds the 11th, the other
\* the 12th, and both get 4 matches out of 10: content 24
C4_Witness ==
    /\ BothMarked
    /\ Len(expected) > 10
    /\ Matched(answer) = {1, 2, 3, 11}
    /\ Matched(answerB) = {1, 2, 3, 12}
    /\ marking[1].rubric.content = 24
    /\ markingB[1].rubric.content = 24

(***************************************************************************)
(* extract_topics applied to a text                                        *)
(***************************************************************************)
MaxWords == 4

MaxTop == 3

\* a stopword, a word in two spellings, two more words, a two-letter word
TopicChunks == {
    <<"T","h","e">>,
    <<"c","a","t">>,
    <<"C","a","t",",">>,
    <<"d","o","g">>,
    <<"e","e","l">>,
    <<"o","x">>}

InitTopics ==
    /\ \E ws \in SeqsUpTo(TopicChunks, MaxWords) : text = JoinWords(ws, <<" ">>)
    /\ limit \in 0..MaxTop
    /\ pages = <<>> /\ topic = <<>> /\ sentences = <<>>
    /\ topics = <<>> /\ hits = <<>> /\ summary = <<>> /\ headings = <<>> /\ sheet = <<>>
    /\ simplified = <<>>
    /\ MarkIdle

\* topics = extract_topics(text, top_n=limit)
ExtractTopics ==
    /\ topics = <<>>
    /\ topics' = <<extract_topics(text, limit)>>
    /\ UNCHANGED <<markVars, inVars, hits, summary, headings, simplified, sheet>>

NextTopics == ExtractTopics

SpecTopics == InitTopics /\ [][NextTopics]_vars

TokenCount(w, tokens) == Cardinality({j \in 1..Len(tokens) : tokens[j] = w})

FirstSeen(w, tokens) == CHOOSE j \in 1..Len(tokens) : tokens[j] = w /\ \A k \in 1..(j - 1) : tokens[k] # w

\* C8: extract_topics returns at most N pairs and at most one per distinct
\* token; each count is the number of occurrences of its word among the
\* tokens; counts do not increase along the result; words of equal count are
\* in order of first encounter; no word left out has a strictly larger count
\* than a word returned; the empty text gives the empty sequence.
C8_TopicsTopN ==
    topics # <<>> =>
        LET res    == topics[1]
            tokens == tokenize(text)
            words  == {tokens[j] : j \in 1..Len(tokens)}
            inRes  == {res[r].word : r \in 1..Len(res)}
        IN  /\ Len(res) <= limit
            /\ Len(res) <= Cardinality(words)
            /\ \A r \in 1..Len(res) :
                   res[r].word \in words /\ res[r].count = TokenCount(res[r].word, tokens)
            /\ \A r \in 1..Len(res), q \in 1..Len(res) :
                   r < q => /\ res[r].count >= res[q].count
                            /\ res[r].count = res[q].count
                               => FirstSeen(res[r].word, tokens) < FirstSeen(res[q].word, tokens)
            /\ \A w \in words \ inRes, r \in 1..Len(res) :
                   TokenCount(w, tokens) <= res[r].count
            /\ text = <<>> => res = <<>>

\* three distinct tokens, two of them tied, and room for only two pairs: the
\* tie is decided by first encounter and a word is left out
C8_Witness ==
    /\ topics # <<>>
    /\ limit = 2
    /\ Len(topics[1]) = 2
    /\ Cardinality({tokenize(text)[j] : j \in 1..Len(tokenize(text))}) = 3
    /\ topics[1][1].count = 2
    /\ topics[1][2].count = 1

(***************************************************************************)
(* find_relevant_sentences_with_pages applied to a document                *)
(***************************************************************************)
MaxPages == 2

MaxHits == 3

RelevantTexts == {
    <<"T","h","e"," ","c","a","t"," ","s","a","t","."," ","T","h","e"," ","c","a","t"," ","c","a","t"," ","r","a","n",".">>,
    <<"A"," ","d","o","g","."," ","C","a","t","s"," ","a","n","d"," ","a"," ","c","a","t","!"," ","M","y"," ","c","a","t",".">>,
    <<"N","o"," ","p","e","t","s"," ","h","e","r","e","."," ","D","o","g","s"," ","b","a","r","k",".">>}

RelevantTopics == {<<>>, <<"c","a","t">>, <<" ","C","A","T"," ">>, <<"d","o","g">>}

\* page 0 is a non-paginated source, so page numbers may repeat and may not ascend
PageNumbers == {0, 1}

RelevantPages == [page : PageNumbers, text : RelevantTexts]

InitRelevant ==
    /\ pages \in SeqsUpTo(RelevantPages, MaxPages)
    /\ topic \in RelevantTopics
    /\ limit \in 0..MaxHits
    /\ text = <<>> /\ sentences = <<>>
    /\ topics = <<>> /\ hits = <<>> /\ summary = <<>> /\ headings = <<>> /\ sheet = <<>>
    /\ simplified = <<>>
    /\ MarkIdle

\* hits = find_relevant_sentences_with_pages(pages, topic, max_sentences=limit)
FindRelevant ==
    /\ hits = <<>>
    /\ hits' = <<find_relevant_sentences_with_pages(pages, topic, limit)>>
    /\ UNCHANGED <<markVars, inVars, topics, summary, headings, simplified, sheet>>

NextRelevant == FindRelevant

SpecRelevant == InitRelevant /\ [][NextRelevant]_vars

\* every sentence of the document in encounter order (page sequence order,
\* then sentence order within the page), with its page number
RECURSIVE Encountered(_, _)
Encountered(ps, i) ==
    IF i > Len(ps) THEN <<>>
    ELSE LET sents == split_sentences(ps[i].text)
         IN  [k \in 1..Len(sents) |-> [page |-> ps[i].page, sentence |-> sents[k]]]
             \o Encountered(ps, i + 1)

Occurrences(s, t) == IF t = <<>> THEN 0 ELSE str_count(lower(s), t)

\* res is the first K triples of the stable descending sort of the sentences
\* that hold the topic string t, each scored 3 x occurrences + 1
RelevantTopK(res, t, K) ==
    LET enc    == Encountered(pages, 1)
        Holds(e) == Occurrences(e.sentence, t) > 0
        scored == SelectSeq(enc, Holds)
        Triple(e) == [score |-> 3 * Occurrences(e.sentence, t) + 1,
                      page |-> e.page, sentence |-> e.sentence]
        all    == [k \in 1..Len(scored) |-> Triple(scored[k])]
        values == {all[k].score : k \in 1..Len(all)} \cup {res[r].score : r \in 1..Len(res)}
        With(seq, v) == LET Is(h) == h.score = v IN SelectSeq(seq, Is)
    IN  /\ Len(res) <= K
        /\ Len(res) = (IF K < Len(all) THEN K ELSE Len(all))
        /\ \A r \in 1..Len(res), q \in 1..Len(res) :
               /\ r < q => res[r].score >= res[q].score
               /\ Occurrences(res[r].sentence, t) > Occurrences(res[q].sentence, t) => r < q
        /\ \A v \in values :
               /\ Len(With(res, v)) <= Len(With(all, v))
               /\ With(res, v) = SubSeq(With(all, v), 1, Len(With(res, v)))
               /\ Len(With(res, v)) < Len(With(all, v))
                  => \A r \in 1..Len(res) : res[r].score >= v

\* C7 as stated: the score counts the occurrences of the lowercased topic
C7_TopKByLoweredTopic ==
    hits # <<>> => RelevantTopK(hits[1], lower(topic), limit)

\* C7 amended: the score counts the occurrences of the topic lowercased and
\* stripped of surrounding whitespace; the result is the first K triples of
\* the stable descending sort: scores do not increase, triples of equal score
\* keep their encounter order, more occurrences come first, at most K entries.
C7_TopKByStrippedTopic ==
    hits # <<>> => RelevantTopK(hits[1], strip(lower(topic)), limit)

\* a topic typed with surrounding blanks; four sentences hold it, two with
\* score 7 and two with score 4, and the cut falls between the tied last two
C7_Witness ==
    /\ hits # <<>>
    /\ topic # strip(topic)
    /\ limit = 3
    /\ Len(hits[1]) = 3
    /\ hits[1][1].score = 7
    /\ hits[1][2].score = 7
    /\ hits[1][3].score = 4
    /\ Len(hits_from(pages, strip(lower(topic)), 1)) = 4

(***************************************************************************)
(* summarize_sentences applied to a sentence list                          *)
(***************************************************************************)
MaxSents == 3

MaxKeep == 2

\* two sentences that share their words with a third, one without any token,
\* and one that starts in lower case and so joins the sentence before it
SummaryPool == {
    <<"C","a","t","s"," ","p","u","r","r",".">>,
    <<"D","o","g","s"," ","b","a","r","k"," ","l","o","u","d","l","y",".">>,
    <<"C","a","t","s"," ","a","n","d"," ","d","o","g","s"," ","p","l","a","y",".">>,
    <<"I","t"," ","i","s",".">>,
    <<"c","a","t","s"," ","n","a","p",".">>}

InitSummary ==
    /\ sentences \in SeqsUpTo(SummaryPool, MaxSents)
    /\ limit \in 0..MaxKeep
    /\ text = <<>> /\ pages = <<>> /\ topic = <<>>
    /\ topics = <<>> /\ hits = <<>> /\ summary = <<>> /\ headings = <<>> /\ sheet = <<>>
    /\ simplified = <<>>
    /\ MarkIdle

\* summary = summarize_sentences(sentences, max_sentences=limit)
Summarize ==
    /\ summary = <<>>
    /\ summary' = <<summarize_sentences(sentences, limit)>>
    /\ UNCHANGED <<markVars, inVars, topics, hits, headings, simplified, sheet>>

NextSummary == Summarize

SpecSummary == InitSummary /\ [][NextSummary]_vars

\* the sentence sequence the summarizer selects from
SplitInput == split_sentences(JoinWords(sentences, <<" ">>))

\* C6: summarize_sentences returns at most K sentences, and they are a
\* subsequence of the split sentence sequence: taken at strictly increasing
\* original indices, in document order and not in score order.
C6_SummaryInDocumentOrder ==
    summary # <<>> =>
        LET res   == summary[1]
            sents == SplitInput
        IN  /\ Len(res) <= limit
            /\ \E f \in [1..Len(res) -> 1..Len(sents)] :
                   /\ \A k \in 1..Len(res) : sents[f[k]] = res[k]
                   /\ \A k \in 1..Len(res), m \in 1..Len(res) : k < m => f[k] < f[m]

\* three sentences of three different scores, the last one the highest and
\* the first one the lowest: the two kept ones come out in document order
C6_Witness ==
    /\ summary # <<>>
    /\ limit = 2
    /\ Len(SplitInput) = 3
    /\ LET sc == scored_sentences(SplitInput, Counter(tokenize(JoinWords(sentences, <<" ">>))))
       IN  /\ Len(sc) = 3
           /\ HigherScore(sc[3], sc[2])
           /\ HigherScore(sc[2], sc[1])
    /\ summary[1] = <<SplitInput[2], SplitInput[3]>>

(***************************************************************************)
(* build_topic_sheet_with_pages applied to a document and a topic          *)
(***************************************************************************)
\* the first text ends without a full stop and the second starts in lower
\* case, so the two join into one sentence when the summarizer re-splits
SheetTexts == {
    <<"L","i","v","e","r"," ","d","o","s","e","."," ","L","i","v","e","r"," ","r","a","t","e","."," ","L","i","v","e","r"," ","c","e","l","l","."," ","L","i","v","e","r"," ","t","e","s","t">>,
    <<"d","r","u","g","."," ","L","i","v","e","r"," ","z","o","n","e","."," ","L","i","v","e","r"," ","a","c","i","d","."," ","L","i","v","e","r"," ","s","t","e","m","."," ","L","i","v","e","r"," ","u","n","i","t",".">>,
    <<"A","c","i","d"," ","z","o","n","e","."," ","S","t","e","m"," ","c","e","l","l",".">>}

SheetTopics == {<<>>, <<"t","e","s","t"," ","d","r","u","g">>, <<"l","i","v","e","r">>}

SheetPages == [page : PageNumbers, text : SheetTexts]

InitSheet ==
    /\ pages \in SeqsUpTo(SheetPages, MaxPages)
    /\ topic \in SheetTopics
    /\ text = <<>> /\ limit = 0 /\ sentences = <<>>
    /\ topics = <<>> /\ hits = <<>> /\ summary = <<>> /\ headings = <<>> /\ sheet = <<>>
    /\ simplified = <<>>
    /\ MarkIdle

\* sheet = build_topic_sheet_with_pages(pages, topic)
BuildTopicSheet ==
    /\ sheet = <<>>
    /\ sheet' = <<build_topic_sheet_with_pages(pages, topic)>>
    /\ UNCHANGED <<markVars, inVars, topics, hits, summary, headings, simplified>>

NextSheet == BuildTopicSheet

SpecSheet == InitSheet /\ [][NextSheet]_vars

\* the entries the summarizer scores when the sheet is built
SheetScored ==
    LET hs     == sheet_hits(pages, topic)
        joined == JoinWords([k \in 1..Len(hs) |-> hs[k].sentence], <<" ">>)
        counts == Counter(tokenize(joined))
    IN  IF counts = <<>> THEN <<>> ELSE scored_sentences(split_sentences(joined), counts)

Selected(e) == InSeq(e.sentence, sheet[1].summary)

\* b scores higher than a, by a factor of less than 1.25
WithinBoost(a, b) ==
    /\ HigherScore(b, a)
    /\ b.score.num * a.score.den * TopicBoost.den * TopicBoost.den
         < a.score.num * b.score.den * TopicBoost.num * TopicBoost.num

\* C10 as stated: for a non-empty topic, a sentence that holds the topic is
\* selected ahead of a sentence without it whose unboosted score is higher by
\* a factor of less than 1.25.
C10_TopicSentenceBoosted ==
    (sheet # <<>> /\ topic # <<>>) =>
        LET sc == SheetScored
        IN  \A i \in 1..Len(sc), j \in 1..Len(sc) :
                (/\ HoldsTopic(sc[i].sentence, topic)
                 /\ ~HoldsTopic(sc[j].sentence, topic)
                 /\ WithinBoost(sc[i], sc[j])
                 /\ Selected(sc[j]))
                => Selected(sc[i])

\* C10 amended: the summarizer is given no topic and applies no boost; the
\* seven sentences are selected by the frequency-weighted score alone, so a
\* sentence is never selected ahead of one with a strictly higher score,
\* whether or not either of them holds the topic.
C10_NoTopicBoost ==
    sheet # <<>> =>
        LET sc == SheetScored
        IN  \A i \in 1..Len(sc), j \in 1..Len(sc) :
                (HigherScore(sc[j], sc[i]) /\ Selected(sc[i])) => Selected(sc[j])

\* eight scored sentences for seven places: the one that holds the topic
\* scores lowest and is left out, though a boost of 1.25 would lift it over
\* a selected sentence without the topic
C10_Witness ==
    /\ sheet # <<>>
    /\ topic # <<>>
    /\ Len(sheet[1].summary) = SheetSummary
    /\ LET sc == SheetScored
       IN  /\ Len(sc) = 8
           /\ \E i \in 1..8, j \in 1..8 :
                  /\ HoldsTopic(sc[i].sentence, topic)
                  /\ ~HoldsTopic(sc[j].sentence, topic)
                  /\ WithinBoost(sc[i], sc[j])
                  /\ Selected(sc[j])
                  /\ ~Selected(sc[i])

(***************************************************************************)
(* detect_headings applied to a document                                   *)
(***************************************************************************)
MaxHeadPages == 3

\* twenty all-caps lines of 6 characters each
BulkTextA ==
    <<"P","A","R","T"," ","A","\n","P","A","R","T"," ","B","\n","P","A","R","T"," ","C","\n","P","A","R","T"," ","D","\n","P","A","R","T"," ","E","\n","P","A","R","T"," ","F","\n","P","A","R","T"," ","G","\n","P","A","R","T"," ","H","\n","P","A","R","T"," ","I","\n","P","A","R","T"," ","J","\n","P","A","R","T"," ","K","\n","P","A","R","T"," ","L","\n","P","A","R","T"," ","M","\n","P","A","R","T"," ","N","\n","P","A","R","T"," ","O","\n","P","A","R","T"," ","P","\n","P","A","R","T"," ","Q","\n","P","A","R","T"," ","R","\n","P","A","R","T"," ","S","\n","P","A","R","T"," ","T">>

\* twenty other all-caps lines
BulkTextB ==
    <<"U","N","I","T"," ","A","A","\n","U","N","I","T"," ","B","B","\n","U","N","I","T"," ","C","C","\n","U","N","I","T"," ","D","D","\n","U","N","I","T"," ","E","E","\n","U","N","I","T"," ","F","F","\n","U","N","I","T"," ","G","G","\n","U","N","I","T"," ","H","H","\n","U","N","I","T"," ","I","I","\n","U","N","I","T"," ","J","J","\n","U","N","I","T"," ","K","K","\n","U","N","I","T"," ","L","L","\n","U","N","I","T"," ","M","M","\n","U","N","I","T"," ","N","N","\n","U","N","I","T"," ","O","O","\n","U","N","I","T"," ","P","P","\n","U","N","I","T"," ","Q","Q","\n","U","N","I","T"," ","R","R","\n","U","N","I","T"," ","S","S","\n","U","N","I","T"," ","T","T">>

\* a page of 21 lines: lines on both sides of each condition of the heading
\* test among the first 20, and an all-caps line as the 21st
IntroText ==
    <<"I","N","T","R","O","D","U","C","T","I","O","N","\n","S","o","m","e"," ","b","o","d","y"," ","t","e","x","t"," ","h","e","r","e",".","\n","4","2","\n","T","h","e"," ","D","o","s","e"," ","m","a","k","e","s"," ","t","h","e"," ","p","o","i","s","o","n","\n","L","i","v","e","r"," ","d","o","s","e","\n","A","B","C","D","E","\n","A","1","B","2","C","3","\n","X","X","X","X","X","X","X","X","X","X","X","X","X","X","X","X","X","X","X","X","X","X","X","X","X","X","X","X","X","X","X","X","X","X","X","X","X","X","X","X","X","X","X","X","X","X","X","X","X","X","X","X","X","X","X","X","X","X","X","X","X","\n","1","2","-","3","\n","T","o","x","i","c","o","l","o","g","y","\n","a","\n","b","\n","c","\n","d","\n","e","\n","f","\n","g","\n","h","\n","i","\n","j","\n","L","A","T","E"," ","H","E","A","D","I","N","G">>

TitleCaseText ==
    <<"F","o","r","e","n","s","i","c"," ","T","o","x","i","c","o","l","o","g","y","\n","A","D","M","E","\n","n","o","t","e","s"," ","o","n"," ","t","h","e"," ","d","o","s","e">>

AllCapsText ==
    <<"\n"," ","F","O","R","E","N","S","I","C"," "," ","T","O","X","I","C","O","L","O","G","Y"," ","\n","T","h","e"," ","D","o","s","e"," ","M","a","k","e","s"," ","t","h","e"," ","p","o","i","s","o","n","\n","I","n","t","r","o","d","u","c","t","i","o","n">>

\* the two texts that share a heading up to case on page 0 or 1, the others
\* on one page number each
HeadingPages ==
    [page : PageNumbers, text : {TitleCaseText, AllCapsText}]
    \cup {[page |-> 1, text |-> IntroText],
          [page |-> 0, text |-> BulkTextA],
          [page |-> 0, text |-> BulkTextB]}

InitHeadings ==
    /\ pages \in SeqsUpTo(HeadingPages, MaxHeadPages)
    /\ text = <<>> /\ limit = 0 /\ topic = <<>> /\ sentences = <<>>
    /\ topics = <<>> /\ hits = <<>> /\ summary = <<>> /\ headings = <<>> /\ sheet = <<>>
    /\ simplified = <<>>
    /\ MarkIdle

\* headings = detect_headings(pages)
DetectHeadings ==
    /\ headings = <<>>
    /\ headings' = <<detect_headings(pages)>>
    /\ UNCHANGED <<markVars, inVars, topics, hits, summary, simplified, sheet>>

NextHeadings == DetectHeadings

SpecHeadings == InitHeadings /\ [][NextHeadings]_vars

\* the non-blank lines of each page of the document
DocLines == Listed([k \in 1..Len(pages) |-> page_lines(pages[k].text)])

\* the first non-blank line of page k is fully uppercase, 6 to 60 characters,
\* where ls holds the lines of each page
CapsFirstLine(ls, k) ==
    /\ ls[k] # <<>>
    /\ isupper(ls[k][1])
    /\ Len(ls[k][1]) >= 6
    /\ Len(ls[k][1]) <= 60

FirstLineEntry(ls, k) == [heading |-> ls[k][1], page |-> pages[k].page]

\* the heading candidates of each page, lowered: the lines among its first 20
\* that pass the test
Candidates(ls) ==
    [j \in 1..Len(pages) |->
        {lower(ls[j][m]) : m \in {m \in 1..Len(ls[j]) : m <= 20 /\ is_heading(ls[j][m])}}]

\* a candidate equal to the first line of page k, ignoring case, stands on a
\* page with a smaller number or on an earlier page with the same number
Preceded(ls, cands, k) ==
    \E j \in 1..Len(pages) :
        /\ \/ pages[j].page < pages[k].page
           \/ (pages[j].page = pages[k].page /\ j < k)
        /\ lower(ls[k][1]) \in cands[j]

\* the heading texts of the document, case ignored
DistinctHeadings(cands) == UNION {cands[j] : j \in 1..Len(pages)}

\* C9 as stated: whenever the first non-blank line of a page numbered N is
\* fully uppercase with 6 to 60 characters, the output holds the entry made
\* of that line and N.
C9_CapsFirstLineListed ==
    headings # <<>> =>
        LET ls == DocLines
        IN  \A k \in 1..Len(pages) :
                CapsFirstLine(ls, k) => InSeq(FirstLineEntry(ls, k), headings[1])

\* C9 amended: the entry is in the output provided no heading candidate equal
\* to the line ignoring case stands on a page with a smaller page number or
\* on an earlier page with the same page number, and the document yields at
\* most 25 headings that differ ignoring case.
C9_CapsFirstLineListedUnlessShadowed ==
    headings # <<>> =>
        LET ls    == DocLines
            cands == Candidates(ls)
            few   == Cardinality(DistinctHeadings(cands)) <= 25
        IN  \A k \in 1..Len(pages) :
                (CapsFirstLine(ls, k) /\ ~Preceded(ls, cands, k) /\ few)
                => InSeq(FirstLineEntry(ls, k), headings[1])

\* a page that opens with an all-caps line, followed by a page with a larger
\* number that repeats the heading in title case: the repeat is dropped and
\* the all-caps entry kept
C9_Witness ==
    /\ headings # <<>>
    /\ Len(pages) = 2
    /\ pages[1].page < pages[2].page
    /\ LET ls == DocLines
       IN  /\ CapsFirstLine(ls, 1)
           /\ lower(ls[1][1]) \in Candidates(ls)[2]
           /\ ls[1][1] \notin {ls[2][m] : m \in 1..Len(ls[2])}
           /\ InSeq(FirstLineEntry(ls, 1), headings[1])
           /\ \A r \in 1..Len(headings[1]) :
                  lower(headings[1][r].heading) = lower(ls[1][1])
                  => headings[1][r] = FirstLineEntry(ls, 1)

\* the occurrence i of the scan is the first one met, in input order, among
\* those with its heading text ignoring case
FirstMet(all, low, i) == \A j \in 1..(i - 1) : low[j] # low[i]

\* the occurrence i of the scan has the smallest page number among those with
\* its heading text ignoring case, and is the first met among these
FirstByPage(all, low, i) ==
    \A j \in 1..Len(all) :
        low[j] = low[i] =>
            \/ all[j].page > all[i].page
            \/ (all[j].page = all[i].page /\ j >= i)

\* at most 25 entries, page numbers that do not decrease, no two headings
\* equal ignoring case
CappedSortedDistinct(res) ==
    /\ Len(res) <= 25
    /\ \A a \in 1..Len(res), b \in 1..Len(res) :
           a < b => /\ res[a].page <= res[b].page
                    /\ lower(res[a].heading) # lower(res[b].heading)

\* C12 as stated: the result has at most 25 entries, non-decreasing page
\* numbers and no two headings equal ignoring case, and the entry kept for a
\* heading text is the first occurrence met when the pages are scanned in
\* input order.
C12_FirstMetKept ==
    headings # <<>> =>
        \E res \in {headings[1]} : \E all \in {headings_from(pages, 1)} :
            \E low \in {[i \in 1..Len(all) |-> lower(all[i].heading)] \o <<>>} :
                /\ CappedSortedDistinct(res)
                /\ \A r \in 1..Len(res) :
                       \E i \in 1..Len(all) : all[i] = res[r] /\ FirstMet(all, low, i)

\* C12 amended: the same bounds, order and distinctness, and the entry kept
\* for a heading text is the occurrence with the smallest page number, the
\* first met in input order among the occurrences on that page number.
C12_FirstByPageKept ==
    headings # <<>> =>
        \E res \in {headings[1]} : \E all \in {headings_from(pages, 1)} :
            \E low \in {[i \in 1..Len(all) |-> lower(all[i].heading)] \o <<>>} :
                /\ CappedSortedDistinct(res)
                /\ \A r \in 1..Len(res) :
                       \E i \in 1..Len(all) : all[i] = res[r] /\ FirstByPage(all, low, i)

\* a page numbered 1 comes before a page numbered 0 that repeats one of its
\* headings in another case: the entry of page 0 is kept, listed first
C12_Witness ==
    /\ headings # <<>>
    /\ Len(pages) = 2
    /\ pages[1].page > pages[2].page
    /\ \E all \in {headings_from(pages, 1)} :
           \E i \in 1..Len(all), j \in 1..Len(all) :
               /\ i < j
               /\ all[i].page = pages[1].page /\ all[j].page = pages[2].page
               /\ lower(all[i].heading) = lower(all[j].heading)
               /\ all[i].heading # all[j].heading
               /\ headings[1][1] = all[j]
               /\ ~InSeq(all[i], headings[1])

\* the places of ln where a word starts
WordStarts(ln) == {i \in 1..Len(ln) : ln[i] \notin Space /\ (i = 1 \/ ln[i-1] \in Space)}

\* the words of ln that start with an upper-case letter
CapitalStarts(ln) == {i \in WordStarts(ln) : ln[i] \in Upper}

\* what every alternative of the rule needs: at most 60 characters, a
\* letter, not a number
ShortLettered(ln) ==
    /\ Len(ln) <= MaxHeadingLen
    /\ \E i \in 1..Len(ln) : ln[i] \in Lower \cup Upper
    /\ \E i \in 1..Len(ln) : ln[i] \notin Digit

\* fully uppercase, with 6 characters or more
LongCaps(ln) ==
    /\ Len(ln) >= MinCapsLen
    /\ \E i \in 1..Len(ln) : ln[i] \in Upper
    /\ \A i \in 1..Len(ln) : ln[i] \notin Lower

\* the rule of the claim: at least half of the words are capitalized
ClaimedRule(ln) ==
    /\ ShortLettered(ln)
    /\ \/ LongCaps(ln)
       \/ 2 * Cardinality(CapitalStarts(ln)) >= Cardinality(WordStarts(ln))

\* the rule of the source: two capitalized words or more, and no fewer than
\* half the number of words rounded down; or one of the two listed names
SourceRule(ln) ==
    /\ ShortLettered(ln)
    /\ \/ LongCaps(ln)
       \/ /\ Cardinality(CapitalStarts(ln)) >= 2
          /\ Cardinality(CapitalStarts(ln)) >= Cardinality(WordStarts(ln)) \div 2
       \/ ln \in SpecialHeadings

\* the lines of the document among the first 20 of their page, each with
\* the number of its page
ScannedLines(ls) ==
    UNION {{[heading |-> ls[k][m], page |-> pages[k].page] :
                m \in {m \in 1..Len(ls[k]) : m <= ScanLines}} : k \in 1..Len(pages)}

\* every entry of the result res is a scanned line that passes Rule, and,
\* when the scanned lines that pass Rule hold at most 25 texts that differ
\* ignoring case, every scanned line that passes Rule has its text, ignoring
\* case, in res
FollowsRule(res, scanned, Rule(_)) ==
    LET passing == {e \in scanned : Rule(e.heading)}
    IN  /\ \A r \in 1..Len(res) : res[r] \in passing
        /\ Cardinality({lower(e.heading) : e \in passing}) <= MaxHeadings
           => \A e \in passing :
                  \E r \in 1..Len(res) : lower(res[r].heading) = lower(e.heading)

\* C13 as stated: a line among the first 20 non-blank lines of a page is a
\* heading candidate if and only if it has at most 60 characters, a letter,
\* is not purely numeric, and is fully uppercase with 6 characters or more or
\* has at least half of its words capitalized, a single capitalized word
\* included.
C13_HalfCapitalizedRule ==
    headings # <<>> =>
        \E res \in {headings[1]} : \E scanned \in {ScannedLines(DocLines)} :
            FollowsRule(res, scanned, ClaimedRule)

\* C13 amended: the second alternative asks for two or more capitalized
\* words, and for no fewer than half the number of words rounded down, so
\* that a single capitalized word does not qualify; a third alternative
\* accepts the lines "ADME" and "Forensic Toxicology".
C13_TwoCapitalizedRule ==
    headings # <<>> =>
        \E res \in {headings[1]} : \E scanned \in {ScannedLines(DocLines)} :
            FollowsRule(res, scanned, SourceRule)

\* the page of 21 lines alone: of five words two are capitalized and the
\* line is listed; the single capitalized word, the line of two words with
\* one capitalized and the 21st line are not; "ADME" is listed elsewhere
C13_Witness ==
    /\ headings # <<>>
    /\ Len(pages) = 2
    /\ pages[1].text = IntroText
    /\ pages[2].text = TitleCaseText
    /\ \E res \in {headings[1]} :
           \E texts \in {{res[r].heading : r \in 1..Len(res)}} :
               /\ <<"T","h","e"," ","D","o","s","e"," ","m","a","k","e","s"," ","t","h","e"," ","p","o","i","s","o","n">> \in texts
               /\ <<"A","1","B","2","C","3">> \in texts
               /\ <<"A","D","M","E">> \in texts
               /\ <<"T","o","x","i","c","o","l","o","g","y">> \notin texts
               /\ <<"L","i","v","e","r"," ","d","o","s","e">> \notin texts
               /\ <<"A","B","C","D","E">> \notin texts
               /\ <<"L","A","T","E"," ","H","E","A","D","I","N","G">> \notin texts
               /\ Len(res) = 5

(***************************************************************************)
(* simplify_sentences applied to a list of sentences                       *)
(***************************************************************************)
MaxSimplify == 2

\* the words that fill a sentence up to a given length
LeadWords == <<"d","o","s","e"," ","r","a","t","e"," ">>

PlainTail ==
    <<"e","n","d","s"," ","i","n"," ","t","h","e"," ","l","i","v","e","r",".">>

OneBreakTail ==
    <<"t","h","e"," ","d","r","u","g",","," ","w","h","i","c","h"," ","a","c","t","s"," ","f","a","s","t",".">>

ManyBreaksTail ==
    <<"a"," ","d","r","u","g",","," ","w","h","i","c","h"," ","a","c","t","s",","," ","t","h","a","t"," ","b","i","n","d","s",","," ","W","H","I","C","H"," "," ","e","n","d","s",".">>

ShrinkingTail ==
    <<"H","o","w","e","v","e","r"," ","a"," ","d","r","u","g",",","\t","t","h","a","t"," ","a","c","t","s",","," ","t","h","a","t"," ","b","i","n","d","s",".">>

NearBreakTail ==
    <<"a"," ","d","r","u","g",",","w","h","i","c","h"," ","a","c","t","s"," ",","," ","t","h","a","t"," ","b","i","n","d","s",","," ","t","h","a","t","s"," ","a","l","l",".">>

\* a sentence of total characters that ends with tail
Padded(tail, total) ==
    Take(Repeat(LeadWords, (total \div Len(LeadWords)) + 1), total - Len(tail)) \o tail

\* sentences on both sides of the length of 180, with no, one and several
\* clause-breaks
SimplifyPool ==
    {Padded(PlainTail, 181), Padded(OneBreakTail, 180), Padded(OneBreakTail, 181),
     Padded(ManyBreaksTail, 60), Padded(ManyBreaksTail, 180), Padded(ManyBreaksTail, 181),
     Padded(ShrinkingTail, 184), Padded(ShrinkingTail, 185),
     Padded(NearBreakTail, 181), ManyBreaksTail}

InitSimplify ==
    /\ sentences \in SeqsUpTo(SimplifyPool, MaxSimplify)
    /\ text = <<>> /\ limit = 0 /\ pages = <<>> /\ topic = <<>>
    /\ topics = <<>> /\ hits = <<>> /\ summary = <<>> /\ headings = <<>> /\ sheet = <<>>
    /\ simplified = <<>>
    /\ MarkIdle

\* simplified = simplify_sentences(sentences)
Simplify ==
    /\ simplified = <<>>
    /\ simplified' = <<simplify_sentences(sentences)>>
    /\ UNCHANGED <<markVars, inVars, topics, hits, summary, headings, sheet>>

NextSimplify == Simplify

SpecSimplify == InitSimplify /\ [][NextSimplify]_vars

\* the places of x where a clause-break starts, in order; a clause-break
\* holds one comma, its first character, so no two of them overlap
ClauseBreaks(x) ==
    LET IsBreak(i) == MatchLen(x, i, ClausePat) > 0
    IN  SelectSeq(Indices(Len(x)), IsBreak)

\* x with the clause-breaks that start at the places bs replaced by ". "
BreaksReplaced(x, bs) ==
    LET From(k) == IF k = 1 THEN 1 ELSE bs[k-1] + MatchLen(x, bs[k-1], ClausePat)
        To(k)   == IF k = Len(bs) + 1 THEN Len(x) ELSE bs[k] - 1
    IN  JoinWords([k \in 1..(Len(bs) + 1) |-> SubSeq(x, From(k), To(k))], <<".", " ">>)

\* C11 as stated: of a sentence longer than 180 characters with two or more
\* clause-breaks only the first is replaced by ". " and the later ones are
\* left as they are; a sentence of 180 characters or fewer has none replaced.
C11_FirstClauseBreakOnly ==
    simplified # <<>> =>
        \A k \in 1..Len(sentences) :
            \E s \in {sentences[k]} : \E x \in {replace_words(s)} : \E bs \in {ClauseBreaks(x)} :
                /\ (Len(s) > 180 /\ Len(ClauseBreaks(s)) >= 2)
                   => simplified[1][k] = strip(BreaksReplaced(x, Take(bs, 1)))
                /\ Len(s) <= 180 => simplified[1][k] = strip(x)

\* C11 amended: the clause-break rule is applied to every place.  When the
\* text left by the five word substitutions is longer than 180 characters,
\* every clause-break in it is replaced by ". "; when it has 180 characters
\* or fewer, as for every sentence of 180 characters or fewer, none is.
C11_EveryClauseBreak ==
    simplified # <<>> =>
        /\ Len(simplified[1]) = Len(sentences)
        /\ \A k \in 1..Len(sentences) :
               \E s \in {sentences[k]} : \E x \in {replace_words(s)} : \E bs \in {ClauseBreaks(x)} :
                   /\ Len(x) <= Len(s)
                   /\ Len(x) > 180 => /\ simplified[1][k] = strip(BreaksReplaced(x, bs))
                                      /\ ClauseBreaks(simplified[1][k]) = <<>>
                   /\ Len(x) <= 180 => simplified[1][k] = strip(x)

\* a sentence of 181 characters with three clause-breaks, all three replaced
C11_Witness ==
    /\ simplified # <<>>
    /\ \E k \in 1..Len(sentences) :
           /\ Len(sentences[k]) = 181
           /\ Len(ClauseBreaks(sentences[k])) = 3
           /\ ClauseBreaks(simplified[1][k]) = <<>>
           /\ Len(simplified[1][k]) < Len(sentences[k]) - 3

====
